---- MODULE Spec2Model ----
(***************************************************************************)
(* A model of the voice chat client of src/app/page.tsx: the streaming     *)
(* response decoder (parseStreamChunks, handleStreamEvent and the folds    *)
(* into the message list), the recorder with its silence detector, the     *)
(* request builder (sendAudio) and the settings store.                     *)
(*                                                                         *)
(* Text is a sequence of tokens.  A token is a run of characters that the  *)
(* model never splits ("LF" is the newline, "SP" a blank, "CR" a carriage  *)
(* return, "data:" the five characters of the event-stream prefix); what   *)
(* the code does between tokens (split, trim, startsWith, slice, concat)   *)
(* is computed as the code computes it.                                    *)
(***************************************************************************)
EXTENDS Integers, Sequences, FiniteSets, TLC

(***************************************************************************)
(* Bounds of the model.                                                    *)
(***************************************************************************)
MaxRecords == 3
MaxEvents == 3
MaxRecordings == 1
MaxTicks == 4
TickMs == 500

(***************************************************************************)
(* Text helpers: String.prototype.trim / startsWith / split('\n').         *)
(***************************************************************************)
IsSpace(c) == c \in {"SP", "CR", "LF"}

RECURSIVE TrimStart(_)
TrimStart(t) ==
  IF t # <<>> /\ IsSpace(Head(t)) THEN TrimStart(Tail(t)) ELSE t

RECURSIVE TrimEnd(_)
TrimEnd(t) ==
  IF t # <<>> /\ IsSpace(t[Len(t)]) THEN TrimEnd(SubSeq(t, 1, Len(t) - 1)) ELSE t

Trim(t) == TrimEnd(TrimStart(t))

StartsWith(t, p) == Len(t) >= Len(p) /\ SubSeq(t, 1, Len(p)) = p

IsPrefix(p, t) == StartsWith(t, p)

\* buffer.split('\n'): the segments between newlines, one more than newlines.
RECURSIVE SplitLF(_, _, _)
SplitLF(t, cur, acc) ==
  IF t = <<>> THEN Append(acc, cur)
  ELSE IF Head(t) = "LF" THEN SplitLF(Tail(t), <<>>, Append(acc, cur))
  ELSE SplitLF(Tail(t), Append(cur, Head(t)), acc)

Split(t) == SplitLF(t, <<>>, <<>>)

RECURSIVE Concat(_)
Concat(ss) == IF ss = <<>> THEN <<>> ELSE Head(ss) \o Concat(Tail(ss))

(***************************************************************************)
(* TextDecoder.decode(value, {stream: true}).  Bytes are tokens; "xC3"     *)
(* followed by "xA9" is the two-byte encoding of the character "e'".  The  *)
(* decoder keeps an incomplete sequence across calls (pending) and emits   *)
(* U+FFFD ("FFFD") for a malformed one.                                    *)
(***************************************************************************)
LeadByte == "xC3"
ContByte == "xA9"

RECURSIVE DecodeFrom(_, _, _)
DecodeFrom(pending, bytes, out) ==
  IF bytes = <<>> THEN [text |-> out, pending |-> pending]
  ELSE LET b == Head(bytes) IN
    IF pending = LeadByte
    THEN IF b = ContByte
         THEN DecodeFrom("", Tail(bytes), Append(out, "e'"))
         ELSE DecodeFrom("", bytes, Append(out, "FFFD"))
    ELSE IF b = LeadByte THEN DecodeFrom(LeadByte, Tail(bytes), out)
    ELSE IF b = ContByte THEN DecodeFrom("", Tail(bytes), Append(out, "FFFD"))
    ELSE DecodeFrom("", Tail(bytes), Append(out, b))

\* decode without {stream: true}: an incomplete sequence at the end of the
\* chunk is flushed as U+FFFD instead of being kept for the next chunk.
DecodeNoStream(pending, bytes) ==
  LET r == DecodeFrom(pending, bytes, <<>>) IN
  IF r.pending = "" THEN r
  ELSE [text |-> Append(r.text, "FFFD"), pending |-> ""]

Decode(pending, bytes) == DecodeFrom(pending, bytes, <<>>)

(***************************************************************************)
(* JSON.parse of a payload.  A JSON document is the token "null", or an    *)
(* object  { field , field ... }  whose fields are tokens, each standing   *)
(* for one complete  "key": value  pair (FieldKey, FieldVal).  Absent and  *)
(* empty are both <<>> (the code tests every field by truthiness); a       *)
(* tool-call id is "undefined" when absent.                                *)
(***************************************************************************)
NoId == "undefined"

RawTool(id, name, args) == [id |-> id, name |-> name, arguments |-> args]
FnTool(id, fn) == [id |-> id, function |-> fn]
Fn(name, args) == [name |-> name, arguments |-> args]

EmptyEvent ==
  [error |-> <<>>, delta |-> <<>>, content |-> <<>>, text |-> <<>>,
   audio_url |-> <<>>, url |-> <<>>, tool_call |-> <<>>, tool_calls |-> <<>>,
   choices |-> <<>>]

FieldKey ==
  [f \in {"dHi", "dThere", "cC", "tT", "eBoom", "aRel", "uAbs", "tc1f", "tc1_",
          "tc2g", "tcs", "ch"} |->
     CASE f \in {"dHi", "dThere"} -> "delta"
       [] f = "cC" -> "content"
       [] f = "tT" -> "text"
       [] f = "eBoom" -> "error"
       [] f = "aRel" -> "audio_url"
       [] f = "uAbs" -> "url"
       [] f \in {"tc1f", "tc1_", "tc2g"} -> "tool_call"
       [] f = "tcs" -> "tool_calls"
       [] f = "ch" -> "choices"]

FieldVal(f) ==
  CASE f = "dHi" -> <<"Hi">>
    [] f = "dThere" -> <<"SP", "there">>
    [] f = "cC" -> <<"C">>
    [] f = "tT" -> <<"T">>
    [] f = "eBoom" -> <<"boom">>
    [] f = "aRel" -> <<"/", "a.wav">>
    [] f = "uAbs" -> <<"https://", "cdn", "/", "b.wav">>
    [] f = "tc1f" -> <<RawTool("1", "f", <<"{city:">>)>>
    [] f = "tc1_" -> <<RawTool("1", "", <<"Paris}">>)>>
    [] f = "tc2g" -> <<RawTool("2", "g", <<"{}">>)>>
    [] f = "tcs" -> <<RawTool("1", "f", <<"{city:">>), RawTool("1", "", <<"Paris}">>)>>
    [] f = "ch" -> <<[content |-> <<"Hi">>,
                     tool_calls |-> <<FnTool("1", <<Fn("f", <<"{city:">>)>>)>>]>>

RECURSIVE ParseFields(_, _)
ParseFields(t, ev) ==
  IF t = <<>> THEN [ok |-> FALSE, isNull |-> FALSE, event |-> ev]
  ELSE IF Head(t) \notin DOMAIN FieldKey THEN [ok |-> FALSE, isNull |-> FALSE, event |-> ev]
  ELSE LET ev2 == [ev EXCEPT ![FieldKey[Head(t)]] = FieldVal(Head(t))] IN
       IF Len(t) = 1 THEN [ok |-> TRUE, isNull |-> FALSE, event |-> ev2]
       ELSE IF t[2] = "," THEN ParseFields(SubSeq(t, 3, Len(t)), ev2)
       ELSE [ok |-> FALSE, isNull |-> FALSE, event |-> ev]

ParseJson(payload) ==
  IF payload = <<"null">> THEN [ok |-> TRUE, isNull |-> TRUE, event |-> EmptyEvent]
  ELSE IF Len(payload) >= 2 /\ Head(payload) = "{" /\ payload[Len(payload)] = "}"
  THEN IF Len(payload) = 2 THEN [ok |-> TRUE, isNull |-> FALSE, event |-> EmptyEvent]
       ELSE ParseFields(SubSeq(payload, 2, Len(payload) - 1), EmptyEvent)
  ELSE [ok |-> FALSE, isNull |-> FALSE, event |-> EmptyEvent]

(***************************************************************************)
(* The folds into the message list.                                        *)
(***************************************************************************)
Truthy(id) == id \notin {NoId, ""}

\* StripSlash that leaves a trailing slash in place.
StripSlashNot(u) == u

\* serverUrl.replace(/\/$/, '')
StripSlash(u) == IF u # <<>> /\ u[Len(u)] = "/" THEN SubSeq(u, 1, Len(u) - 1) ELSE u

resolveAudioUrl(serverUrl, url) ==
  IF StartsWith(url, <<"http://">>) \/ StartsWith(url, <<"https://">>) THEN url
  ELSE StripSlash(serverUrl) \o (IF StartsWith(url, <<"/">>) THEN <<>> ELSE <<"/">>) \o url

\* appendAssistantDelta that appends to every assistant message.
appendToEveryAssistant(msgs, messageId, delta) ==
  [i \in DOMAIN msgs |->
     IF msgs[i].role = "assistant" THEN [msgs[i] EXCEPT !.content = @ \o delta] ELSE msgs[i]]

appendAssistantDelta(msgs, messageId, delta) ==
  [i \in DOMAIN msgs |->
     IF msgs[i].id = messageId THEN [msgs[i] EXCEPT !.content = @ \o delta] ELSE msgs[i]]

FindIndex(existing, id) ==
  IF \E i \in DOMAIN existing : existing[i].id = id
  THEN CHOOSE i \in DOMAIN existing :
         /\ existing[i].id = id
         /\ \A j \in DOMAIN existing : existing[j].id = id => i <= j
  ELSE 0

\* MergeToolCall with the arguments of a fragment replacing those received.
MergeToolCallReplacing(existing, toolCall) ==
  LET index == IF Truthy(toolCall.id) THEN FindIndex(existing, toolCall.id) ELSE 0 IN
  IF index > 0
  THEN [existing EXCEPT ![index] =
          [@ EXCEPT !.name = IF toolCall.name # "" THEN toolCall.name ELSE @,
                    !.arguments = toolCall.arguments]]
  ELSE Append(existing, toolCall)

\* MergeToolCall that looks for the id of the fragment also when it is
\* missing or empty.
MergeToolCallAnyId(existing, toolCall) ==
  LET index == FindIndex(existing, toolCall.id) IN
  IF index > 0
  THEN [existing EXCEPT ![index] =
          [@ EXCEPT !.name = IF toolCall.name # "" THEN toolCall.name ELSE @,
                    !.arguments = @ \o toolCall.arguments]]
  ELSE Append(existing, toolCall)

MergeToolCall(existing, toolCall) ==
  LET index == IF Truthy(toolCall.id) THEN FindIndex(existing, toolCall.id) ELSE 0 IN
  IF index > 0
  THEN [existing EXCEPT ![index] =
          [@ EXCEPT !.name = IF toolCall.name # "" THEN toolCall.name ELSE @,
                    !.arguments = @ \o toolCall.arguments]]
  ELSE Append(existing, toolCall)

upsertToolCall(msgs, messageId, toolCall) ==
  [i \in DOMAIN msgs |->
     IF msgs[i].id = messageId
     THEN [msgs[i] EXCEPT !.toolCalls = MergeToolCall(@, toolCall)]
     ELSE msgs[i]]

OrTool(name) == IF name # "" THEN name ELSE "tool"

RECURSIVE UpsertAll(_, _, _)
UpsertAll(msgs, messageId, tools) ==
  IF tools = <<>> THEN msgs
  ELSE UpsertAll(
         upsertToolCall(msgs, messageId,
           RawTool(Head(tools).id, OrTool(Head(tools).name), Head(tools).arguments)),
         messageId, Tail(tools))

\* FnName that never finds the name of the function.
FnNameDropped(call) == ""

FnName(call) == IF call.function = <<>> THEN "" ELSE call.function[1].name
FnArgs(call) == IF call.function = <<>> THEN <<>> ELSE call.function[1].arguments

RECURSIVE UpsertAllFn(_, _, _)
UpsertAllFn(msgs, messageId, calls) ==
  IF calls = <<>> THEN msgs
  ELSE UpsertAllFn(
         upsertToolCall(msgs, messageId,
           RawTool(Head(calls).id, OrTool(FnName(Head(calls))), FnArgs(Head(calls)))),
         messageId, Tail(calls))

RECURSIVE FoldChoices(_, _, _)
FoldChoices(msgs, messageId, choices) ==
  IF choices = <<>> THEN msgs
  ELSE LET c == Head(choices)
           m1 == IF c.content # <<>> THEN appendAssistantDelta(msgs, messageId, c.content)
                 ELSE msgs
           m2 == UpsertAllFn(m1, messageId, c.tool_calls)
       IN FoldChoices(m2, messageId, Tail(choices))

ErrorAnnotation(err) == <<"LF", "[Error] ">> \o err

\* st = [messages, audioUrl]: the message list and the player's audio URL.
handleStreamEvent(st, messageId, event, serverUrl) ==
  IF event.error # <<>>
  THEN [st EXCEPT !.messages = appendAssistantDelta(@, messageId, ErrorAnnotation(event.error))]
  ELSE
    LET textDelta == IF event.delta # <<>> THEN event.delta
                     ELSE IF event.content # <<>> THEN event.content
                     ELSE event.text
        m1 == IF textDelta # <<>> THEN appendAssistantDelta(st.messages, messageId, textDelta)
              ELSE st.messages
        ref == IF event.audio_url # <<>> THEN event.audio_url ELSE event.url
        hasAudio == ref # <<>>
        resolvedUrl == resolveAudioUrl(serverUrl, ref)
        m2 == IF hasAudio
              THEN [i \in DOMAIN m1 |->
                      IF m1[i].id = messageId THEN [m1[i] EXCEPT !.audioUrl = resolvedUrl]
                      ELSE m1[i]]
              ELSE m1
        m3 == UpsertAll(m2, messageId, event.tool_call)
        m4 == UpsertAll(m3, messageId, event.tool_calls)
        m5 == FoldChoices(m4, messageId, event.choices)
    IN [messages |-> m5, audioUrl |-> IF hasAudio THEN resolvedUrl ELSE st.audioUrl]

(***************************************************************************)
(* parseStreamChunks: the lines of one chunk.                              *)
(* st = [messages, audioUrl, returned]; returned is set by `[DONE]`.       *)
(***************************************************************************)
\* contentType.includes('text/event-stream')
IsSse(contentType) == \E i \in DOMAIN contentType : contentType[i] = "text/event-stream"

Payload(isSse, trimmed) ==
  IF isSse /\ StartsWith(trimmed, <<"data:">>) THEN Trim(Tail(trimmed)) ELSE trimmed

\* ProcessLine with a sentinel that does not end the decoding.
ProcessLineNoDone(st, messageId, line, isSse, serverUrl) ==
  LET trimmed == Trim(line)
      payload == Payload(isSse, trimmed)
      parsed == ParseJson(payload)
  IN IF trimmed = <<>> THEN st
     ELSE IF payload = <<"[DONE]">> THEN st
     ELSE IF parsed.ok /\ ~parsed.isNull
     THEN LET h == handleStreamEvent([messages |-> st.messages, audioUrl |-> st.audioUrl],
                                     messageId, parsed.event, serverUrl)
          IN [st EXCEPT !.messages = h.messages, !.audioUrl = h.audioUrl]
     ELSE IF ~isSse
     THEN [st EXCEPT !.messages = appendAssistantDelta(@, messageId, payload)]
     ELSE st

\* ProcessLine with an error record that ends the decoding.
ProcessLineErrorStops(st, messageId, line, isSse, serverUrl) ==
  LET trimmed == Trim(line)
      payload == Payload(isSse, trimmed)
      parsed == ParseJson(payload)
  IN IF trimmed = <<>> THEN st
     ELSE IF payload = <<"[DONE]">> THEN [st EXCEPT !.returned = TRUE]
     ELSE IF parsed.ok /\ ~parsed.isNull
     THEN LET h == handleStreamEvent([messages |-> st.messages, audioUrl |-> st.audioUrl],
                                     messageId, parsed.event, serverUrl)
          IN [st EXCEPT !.messages = h.messages, !.audioUrl = h.audioUrl,
                        !.returned = parsed.event.error # <<>>]
     ELSE IF ~isSse
     THEN [st EXCEPT !.messages = appendAssistantDelta(@, messageId, payload)]
     ELSE st

\* ProcessLine with the newline-delimited fallback folding the line as read.
ProcessLineUntrimmed(st, messageId, line, isSse, serverUrl) ==
  LET trimmed == Trim(line)
      payload == Payload(isSse, trimmed)
      parsed == ParseJson(payload)
  IN IF trimmed = <<>> THEN st
     ELSE IF payload = <<"[DONE]">> THEN [st EXCEPT !.returned = TRUE]
     ELSE IF parsed.ok /\ ~parsed.isNull
     THEN LET h == handleStreamEvent([messages |-> st.messages, audioUrl |-> st.audioUrl],
                                     messageId, parsed.event, serverUrl)
          IN [st EXCEPT !.messages = h.messages, !.audioUrl = h.audioUrl]
     ELSE IF ~isSse
     THEN [st EXCEPT !.messages = appendAssistantDelta(@, messageId, line)]
     ELSE st

\* ProcessLine with the text fallback under both framings.
ProcessLineTextAlways(st, messageId, line, isSse, serverUrl) ==
  LET trimmed == Trim(line)
      payload == Payload(isSse, trimmed)
      parsed == ParseJson(payload)
  IN IF trimmed = <<>> THEN st
     ELSE IF payload = <<"[DONE]">> THEN [st EXCEPT !.returned = TRUE]
     ELSE IF parsed.ok /\ ~parsed.isNull
     THEN LET h == handleStreamEvent([messages |-> st.messages, audioUrl |-> st.audioUrl],
                                     messageId, parsed.event, serverUrl)
          IN [st EXCEPT !.messages = h.messages, !.audioUrl = h.audioUrl]
     ELSE [st EXCEPT !.messages = appendAssistantDelta(@, messageId, payload)]

\* One iteration of `for (const line of lines)` that has not returned.
ProcessLine(st, messageId, line, isSse, serverUrl) ==
  LET trimmed == Trim(line)
      payload == Payload(isSse, trimmed)
      parsed == ParseJson(payload)
  IN IF trimmed = <<>> THEN st
     ELSE IF payload = <<"[DONE]">> THEN [st EXCEPT !.returned = TRUE]
     ELSE IF parsed.ok /\ ~parsed.isNull
     THEN LET h == handleStreamEvent([messages |-> st.messages, audioUrl |-> st.audioUrl],
                                     messageId, parsed.event, serverUrl)
          IN [st EXCEPT !.messages = h.messages, !.audioUrl = h.audioUrl]
     \* JSON.parse threw, or handleStreamEvent threw reading a field of null
     ELSE IF ~isSse
     THEN [st EXCEPT !.messages = appendAssistantDelta(@, messageId, payload)]
     ELSE st

RECURSIVE ProcessLines(_, _, _, _, _)
ProcessLines(st, messageId, lines, isSse, serverUrl) ==
  IF lines = <<>> \/ st.returned THEN st
  ELSE ProcessLines(ProcessLine(st, messageId, Head(lines), isSse, serverUrl),
                    messageId, Tail(lines), isSse, serverUrl)

\* The rest of the buffer kept for the next chunk: lines.pop() || ''
Remainder(lines) == lines[Len(lines)]

\* One iteration of `while (true)` whose read delivered `chunk`.
\* d = [messages, audioUrl, buffer, pending, returned]
ChunkStep(d, messageId, chunk, contentType, serverUrl) ==
  LET dec == Decode(d.pending, chunk)
      lines == Split(d.buffer \o dec.text)
      st == ProcessLines([messages |-> d.messages, audioUrl |-> d.audioUrl, returned |-> FALSE],
                         messageId, SubSeq(lines, 1, Len(lines) - 1),
                         IsSse(contentType), serverUrl)
  IN [messages |-> st.messages, audioUrl |-> st.audioUrl, buffer |-> Remainder(lines),
      pending |-> dec.pending, returned |-> st.returned]

(***************************************************************************)
(* Program constants.                                                      *)
(***************************************************************************)
autoStopSilenceMs == 1200
\* silenceThreshold = 0.015, in thousandths of the full amplitude
silenceThreshold == 15

defaultServerUrl == <<"https://", "spark">>
StaleHost == "100.77.4.93"

DefaultSettings ==
  [serverUrl |-> defaultServerUrl,
   systemPrompt |-> <<"You are a helpful assistant.">>,
   streamingEnabled |-> TRUE,
   streamPath |-> <<"/", "process-audio-stream">>,
   modelId |-> <<>>,
   toolsJson |-> <<"[", "LF", "tool", "LF", "]">>]

(***************************************************************************)
(* The state.  React state: messages, audioUrl, isRecording, isProcessing, *)
(* settings.  Refs: mediaRecorderRef, isRecordingRef, audioContextRef,     *)
(* analyserRef, rafRef, silenceStartRef (0 is null).  recs holds one       *)
(* record per startRecording call: its position, the values of the render  *)
(* it closed over (cap), its capture stream, audio context and scheduled   *)
(* frame callback, and the position of its sendAudio call (body is the     *)
(* whole byte stream of the response, remaining what the reader has not    *)
(* delivered yet).  requests is                                            *)
(* the log of the network requests issued, storage the localStorage item,  *)
(* loaded what the load effect of the page read from it (history),         *)
(* now the clock in ticks, alerts / uncaught the alert() calls and the     *)
(* exceptions no handler caught.                                           *)
(***************************************************************************)
VARIABLES messages, audioUrl, isRecording, isProcessing, settings, storage, loaded, mounted,
          mediaRecorderRef, isRecordingRef, audioContextRef, analyserRef, rafRef,
          silenceStartRef, quietRun, recs, requests, now, nextId, alerts, uncaught

vars == <<messages, audioUrl, isRecording, isProcessing, settings, storage, loaded, mounted,
          mediaRecorderRef, isRecordingRef, audioContextRef, analyserRef, rafRef,
          silenceStartRef, quietRun, recs, requests, now, nextId, alerts, uncaught>>

refVars == <<mediaRecorderRef, isRecordingRef, audioContextRef, analyserRef, rafRef,
             silenceStartRef, quietRun>>

\* Date.now() in milliseconds; the clock starts after the epoch.
DateNow(t) == 1000 + t * TickMs

Message(id, role, content) ==
  [id |-> id, role |-> role, content |-> content, audioUrl |-> <<>>, toolCalls |-> <<>>]

NewRec(cap) ==
  [pc |-> "gum", cap |-> cap, tracksLive |-> FALSE, ctx |-> "none",
   raf |-> FALSE, autoStops |-> 0,
   sendpc |-> "idle", messageId |-> 0, contentType |-> <<>>, remaining |-> <<>>,
   body |-> <<>>, buffer |-> <<>>, pending |-> "", shape |-> "", fetches |-> 0,
   reports |-> 0]

\* A setState call does nothing once the component is unmounted.
SetState(cur, new) == IF mounted THEN new ELSE cur

(***************************************************************************)
(* Silence detector and recorder.                                          *)
(***************************************************************************)
\* The samples the detector has read since the detection was last cleared
\* (history, not read by the program): since is the time of the first sample
\* of the run of consecutive samples below the threshold that the last
\* sample ends, 0 when the last sample was at or above the threshold or none
\* was read; wasLoud tells that a sample at or above the threshold ended a
\* run of samples below it.
NoRun == [since |-> 0, wasLoud |-> FALSE]

Sampled(q, rms, t) ==
  [since |-> IF rms < silenceThreshold THEN (IF q.since = 0 THEN t ELSE q.since) ELSE 0,
   wasLoud |-> q.wasLoud \/ (rms >= silenceThreshold /\ q.since # 0)]

\* stopSilenceDetection: what it does to the scheduled callbacks and the
\* audio contexts; the four refs it clears are set to 0 by the caller.
stopSilenceDetection(rs) ==
  LET r1 == IF rafRef # 0 THEN [rs EXCEPT ![rafRef].raf = FALSE] ELSE rs
  IN IF audioContextRef # 0 THEN [r1 EXCEPT ![audioContextRef].ctx = "closed"] ELSE r1

ClearDetectionRefs ==
  /\ rafRef' = 0
  /\ silenceStartRef' = 0
  /\ quietRun' = NoRun
  /\ audioContextRef' = 0
  /\ analyserRef' = 0

\* The end of mediaRecorder.onstop of recording k, after `await sendAudio`:
\* stream.getTracks().forEach(track => track.stop()); stopSilenceDetection().
\* The locals of the sendAudio call (the reader's bytes, the buffer, the
\* decoder) and the settings of the closure are dead from here on.
ReleaseAfterSend(rs, k) ==
  stopSilenceDetection([rs EXCEPT ![k].tracksLive = FALSE, ![k].pc = "done",
                                  ![k].sendpc = "finished", ![k].remaining = <<>>,
                                  ![k].buffer = <<>>, ![k].pending = "",
                                  ![k].cap.settings = DefaultSettings])

\* The record button, when it shows "start": onClick = startRecording.  At
\* most `limit` recordings are started in a run of the model.
ClickStart(limit) ==
  /\ mounted /\ ~isProcessing /\ ~isRecording
  /\ Len(recs) < limit
  /\ recs' = Append(recs, NewRec([isRecording |-> isRecording, settings |-> settings]))
  /\ UNCHANGED <<messages, audioUrl, isRecording, isProcessing, settings, storage, loaded, mounted,
                 refVars, requests, now, nextId, alerts, uncaught>>

\* getUserMedia resolves for recording k; recorderOk: `new MediaRecorder` does
\* not throw; ctxOk: `new AudioContext` does not throw.
GumResolve(k, recorderOk, ctxOk) ==
  /\ recs[k].pc = "gum"
  /\ IF ~recorderOk
     THEN /\ recs' = [recs EXCEPT ![k].pc = "failed", ![k].tracksLive = TRUE]
          /\ alerts' = alerts + 1
          /\ UNCHANGED <<isRecording, refVars>>
     ELSE /\ mediaRecorderRef' = k
          /\ isRecordingRef' = TRUE
          /\ isRecording' = SetState(isRecording, TRUE)
          /\ IF ctxOk
             THEN /\ recs' = [recs EXCEPT ![k].pc = "recording", ![k].tracksLive = TRUE,
                                          ![k].ctx = "open", ![k].raf = TRUE]
                  /\ audioContextRef' = k
                  /\ analyserRef' = k
                  /\ rafRef' = k
                  /\ UNCHANGED <<silenceStartRef, quietRun>>
             ELSE /\ recs' = [recs EXCEPT ![k].pc = "recording", ![k].tracksLive = TRUE]
                  /\ UNCHANGED <<audioContextRef, analyserRef, rafRef, silenceStartRef, quietRun>>
          /\ UNCHANGED alerts
  /\ UNCHANGED <<messages, audioUrl, isProcessing, settings, storage, loaded, mounted,
                 requests, now, nextId, uncaught>>

\* getUserMedia rejects (permission refused).
GumReject(k) ==
  /\ recs[k].pc = "gum"
  /\ recs' = [recs EXCEPT ![k].pc = "denied"]
  /\ alerts' = alerts + 1
  /\ UNCHANGED <<messages, audioUrl, isRecording, isProcessing, settings, storage, loaded, mounted,
                 refVars, requests, now, nextId, uncaught>>

\* stopRecording of a render whose isRecording was `closedIsRecording`.
\* rs is the recordings as the caller leaves them.
stopRecording(rs, closedIsRecording) ==
  IF mediaRecorderRef # 0 /\ closedIsRecording
  THEN /\ isRecordingRef' = FALSE
       /\ IF rs[mediaRecorderRef].pc = "recording"
          THEN /\ recs' = [rs EXCEPT ![mediaRecorderRef].pc = "stopping"]
               /\ isRecording' = SetState(isRecording, FALSE)
               /\ UNCHANGED uncaught
          ELSE \* MediaRecorder.stop() on an inactive recorder throws
               /\ recs' = rs
               /\ uncaught' = uncaught + 1
               /\ UNCHANGED isRecording
  ELSE /\ recs' = rs
       /\ UNCHANGED <<isRecordingRef, isRecording, uncaught>>

\* The record button, when it shows "stop": onClick = stopRecording of the
\* current render, whose isRecording is TRUE.
ClickStop ==
  /\ mounted /\ ~isProcessing /\ isRecording
  /\ stopRecording(recs, isRecording)
  /\ UNCHANGED <<messages, audioUrl, isProcessing, settings, storage, loaded, mounted,
                 mediaRecorderRef, audioContextRef, analyserRef, rafRef, silenceStartRef, quietRun,
                 requests, now, nextId, alerts>>

\* Check that leaves the start of the silence in place when a sample is at
\* or above the threshold.
CheckWithoutReset(k, rms, adv) ==
  /\ recs[k].raf
  /\ now + adv <= MaxTicks
  /\ now' = now + adv
  /\ IF analyserRef = 0 \/ mediaRecorderRef = 0 \/ ~isRecordingRef
     THEN /\ recs' = [recs EXCEPT ![k].raf = FALSE]
          /\ UNCHANGED <<isRecording, refVars, uncaught>>
     ELSE IF rms < silenceThreshold /\ silenceStartRef # 0
             /\ DateNow(now') - silenceStartRef > autoStopSilenceMs
     THEN /\ stopRecording([recs EXCEPT ![k].raf = FALSE, ![k].autoStops = @ + 1],
                           recs[k].cap.isRecording)
          /\ UNCHANGED <<mediaRecorderRef, audioContextRef, analyserRef, rafRef,
                         silenceStartRef, quietRun>>
     ELSE /\ silenceStartRef' = IF rms < silenceThreshold
                                THEN (IF silenceStartRef = 0 THEN DateNow(now')
                                      ELSE silenceStartRef)
                                ELSE silenceStartRef
          /\ rafRef' = k
          /\ quietRun' = Sampled(quietRun, rms, DateNow(now'))
          /\ UNCHANGED <<recs, isRecording, mediaRecorderRef, isRecordingRef,
                         audioContextRef, analyserRef, uncaught>>
  /\ UNCHANGED <<messages, audioUrl, isProcessing, settings, storage, loaded, mounted,
                 requests, nextId, alerts>>

\* The frame callback `check` of recording k fires, `adv` ticks after the
\* last event, and reads an amplitude of rms thousandths.
Check(k, rms, adv) ==
  /\ recs[k].raf
  /\ now + adv <= MaxTicks
  /\ now' = now + adv
  /\ IF analyserRef = 0 \/ mediaRecorderRef = 0 \/ ~isRecordingRef
     THEN /\ recs' = [recs EXCEPT ![k].raf = FALSE]
          /\ UNCHANGED <<isRecording, refVars, uncaught>>
     ELSE IF rms < silenceThreshold /\ silenceStartRef # 0
             /\ DateNow(now') - silenceStartRef > autoStopSilenceMs
     THEN /\ stopRecording([recs EXCEPT ![k].raf = FALSE, ![k].autoStops = @ + 1],
                           recs[k].cap.isRecording)
          /\ UNCHANGED <<mediaRecorderRef, audioContextRef, analyserRef, rafRef,
                         silenceStartRef, quietRun>>
     ELSE /\ silenceStartRef' = IF rms < silenceThreshold
                                THEN (IF silenceStartRef = 0 THEN DateNow(now')
                                      ELSE silenceStartRef)
                                ELSE 0
          /\ rafRef' = k
          /\ quietRun' = Sampled(quietRun, rms, DateNow(now'))
          /\ UNCHANGED <<recs, isRecording, mediaRecorderRef, isRecordingRef,
                         audioContextRef, analyserRef, uncaught>>
  /\ UNCHANGED <<messages, audioUrl, isProcessing, settings, storage, loaded, mounted,
                 requests, nextId, alerts>>

(***************************************************************************)
(* sendAudio.  It runs with the values of the render its recording closed  *)
(* over (recs[k].cap.settings).                                            *)
(***************************************************************************)
RECURSIVE RemoveSpace(_)
RemoveSpace(t) ==
  IF t = <<>> THEN <<>>
  ELSE IF IsSpace(Head(t)) THEN RemoveSpace(Tail(t))
  ELSE <<Head(t)>> \o RemoveSpace(Tail(t))

\* The JSON documents of the tools editor: null, [] and a one-tool array;
\* white space may stand between their tokens.
ValidJsonDocs == {<<"null">>, <<"[", "]">>, <<"[", "tool", "]">>}

IsValidJson(t) == RemoveSpace(t) \in ValidJsonDocs

\* JSON.stringify(JSON.parse(t)) of a valid document: the canonical text.
Restringify(t) == RemoveSpace(t)

\* `if (parsedTools)`: null is falsy, an array (also the empty one) is truthy.
ToolsTruthy(t) == RemoveSpace(t) # <<"null">>

\* ToolsInvalid without the JSON.parse of the validation.
ToolsNeverInvalid(toolsJson) == FALSE

\* `toolsJson.trim().length > 0` and JSON.parse throws
ToolsInvalid(toolsJson) == Trim(toolsJson) # <<>> /\ ~IsValidJson(toolsJson)

ToolsField(toolsJson) ==
  IF Trim(toolsJson) # <<>> /\ ToolsTruthy(toolsJson) THEN Restringify(toolsJson) ELSE <<>>

RequestUrl(st) ==
  StripSlash(st.serverUrl) \o
    (IF st.streamingEnabled THEN st.streamPath ELSE <<"/", "process-audio">>)

BuildRequest(k, st) ==
  [rec |-> k, url |-> RequestUrl(st), streaming |-> st.streamingEnabled,
   system_prompt |-> st.systemPrompt, model |-> Trim(st.modelId),
   tools |-> ToolsField(st.toolsJson)]

ToolsErrorText == <<"Error: ", "Tools JSON is invalid. Please fix the JSON format.">>
FailedToFetchText == <<"Error: ", "Failed to fetch. This usually means the server is unreachable">>
ServerErrorText == <<"Error: ", "Server error: ", "statusText">>
ReadErrorText == <<"Error: ", "network error">>
JsonErrorText == <<"Error: ", "Unexpected token">>

\* mediaRecorder.onstop of recording k: the synchronous part of sendAudio.
\* With invalid tools JSON the catch and finally blocks and the rest of onstop
\* run without any await in between.
OnStop(k) ==
  /\ recs[k].pc = "stopping"
  /\ LET st == recs[k].cap.settings IN
     IF ToolsInvalid(st.toolsJson)
     THEN /\ messages' = SetState(messages,
                           Append(messages, Message(nextId, "assistant", ToolsErrorText)))
          /\ nextId' = nextId + 1
          /\ isProcessing' = SetState(isProcessing, FALSE)
          /\ recs' = ReleaseAfterSend([recs EXCEPT ![k].reports = @ + 1], k)
          /\ ClearDetectionRefs
          /\ UNCHANGED requests
     ELSE /\ messages' = SetState(messages,
                           messages \o <<Message(nextId, "user", <<"[Audio message]">>),
                                         Message(nextId + 1, "assistant", <<>>)>>)
          /\ nextId' = nextId + 2
          /\ isProcessing' = SetState(isProcessing, TRUE)
          /\ requests' = Append(requests, BuildRequest(k, st))
          /\ recs' = [recs EXCEPT ![k].pc = "sending", ![k].sendpc = "fetching",
                                  ![k].messageId = nextId + 1, ![k].fetches = @ + 1]
          /\ UNCHANGED <<rafRef, silenceStartRef, quietRun, audioContextRef, analyserRef>>
  /\ UNCHANGED <<audioUrl, isRecording, settings, storage, loaded, mounted, mediaRecorderRef,
                 isRecordingRef, now, alerts, uncaught>>

\* FailSend that reports the failure and leaves the request in flight.
FailSendAndGoOn(k, errorText) ==
  /\ messages' = SetState(messages,
                   [i \in DOMAIN messages |->
                      IF messages[i].id = recs[k].messageId
                      THEN [messages[i] EXCEPT !.content = @ \o errorText]
                      ELSE messages[i]])
  /\ isProcessing' = SetState(isProcessing, FALSE)
  /\ recs' = [recs EXCEPT ![k].reports = @ + 1]
  /\ UNCHANGED <<rafRef, silenceStartRef, quietRun, audioContextRef, analyserRef>>

\* FailSend that reports the failure in a message of its own.
FailSendInNewMessage(k, errorText) ==
  /\ messages' = SetState(messages,
                   Append(messages, Message(recs[k].messageId + 1, "assistant", errorText)))
  /\ isProcessing' = SetState(isProcessing, FALSE)
  /\ recs' = ReleaseAfterSend([recs EXCEPT ![k].reports = @ + 1], k)
  /\ ClearDetectionRefs

\* The catch block with assistantMessageId set, then finally, then the rest
\* of onstop.
FailSend(k, errorText) ==
  /\ messages' = SetState(messages,
                   [i \in DOMAIN messages |->
                      IF messages[i].id = recs[k].messageId
                      THEN [messages[i] EXCEPT !.content = errorText]
                      ELSE messages[i]])
  /\ isProcessing' = SetState(isProcessing, FALSE)
  /\ recs' = ReleaseAfterSend([recs EXCEPT ![k].reports = @ + 1], k)
  /\ ClearDetectionRefs

\* finally, then the rest of onstop, after a send that did not throw.
FinishSend(rs, k) ==
  /\ isProcessing' = SetState(isProcessing, FALSE)
  /\ recs' = ReleaseAfterSend(rs, k)
  /\ ClearDetectionRefs

\* fetch settles for recording k: it rejects, or resolves with a response
\* that is not ok, has no body, or is ok.
FetchSettle(k, outcome, contentType, stream) ==
  /\ recs[k].sendpc = "fetching"
  /\ IF outcome = "reject" THEN
       FailSend(k, FailedToFetchText) /\ UNCHANGED <<audioUrl>>
     ELSE IF outcome = "notok"
             \/ (outcome = "nobody" /\ recs[k].cap.settings.streamingEnabled) THEN
       FailSend(k, ServerErrorText) /\ UNCHANGED <<audioUrl>>
     ELSE
       /\ recs' = IF recs[k].cap.settings.streamingEnabled
                  THEN [recs EXCEPT ![k].sendpc = "reading", ![k].contentType = contentType,
                                    ![k].remaining = stream, ![k].body = stream]
                  ELSE [recs EXCEPT ![k].sendpc = "json"]
       /\ UNCHANGED <<messages, audioUrl, isProcessing, rafRef, silenceStartRef, quietRun,
                      audioContextRef, analyserRef>>
  /\ UNCHANGED <<isRecording, settings, storage, loaded, mounted, mediaRecorderRef, isRecordingRef,
                 requests, now, nextId, alerts, uncaught>>

\* reader.read() resolves with the next n bytes of the stream (n = 0: an
\* empty chunk).
ReadChunk(k, n) ==
  /\ recs[k].sendpc = "reading"
  /\ n <= Len(recs[k].remaining)
  /\ \E d \in {ChunkStep([messages |-> messages, audioUrl |-> audioUrl,
                          buffer |-> recs[k].buffer, pending |-> recs[k].pending,
                          returned |-> FALSE],
                         recs[k].messageId, SubSeq(recs[k].remaining, 1, n),
                         recs[k].contentType, recs[k].cap.settings.serverUrl)} :
       LET rs == [recs EXCEPT ![k].buffer = d.buffer, ![k].pending = d.pending,
                              ![k].remaining = SubSeq(@, n + 1, Len(@))]
       IN /\ messages' = SetState(messages, d.messages)
          /\ audioUrl' = SetState(audioUrl, d.audioUrl)
          /\ IF d.returned
             THEN FinishSend(rs, k)
             ELSE /\ recs' = rs
                  /\ UNCHANGED <<isProcessing, rafRef, silenceStartRef, quietRun, audioContextRef,
                                 analyserRef>>
  /\ UNCHANGED <<isRecording, settings, storage, loaded, mounted, mediaRecorderRef, isRecordingRef,
                 requests, now, nextId, alerts, uncaught>>

\* ReadDone that parses what is left in the buffer as a last line.
ReadDoneFlushing(k) ==
  /\ recs[k].sendpc = "reading"
  /\ recs[k].remaining = <<>>
  /\ \E st \in {ProcessLine([messages |-> messages, audioUrl |-> audioUrl, returned |-> FALSE],
                             recs[k].messageId, recs[k].buffer, IsSse(recs[k].contentType),
                             recs[k].cap.settings.serverUrl)} :
       /\ messages' = SetState(messages, st.messages)
       /\ audioUrl' = SetState(audioUrl, st.audioUrl)
  /\ FinishSend(recs, k)
  /\ UNCHANGED <<isRecording, settings, storage, loaded, mounted,
                 mediaRecorderRef, isRecordingRef, requests, now, nextId, alerts, uncaught>>

\* reader.read() resolves with done: the source is exhausted.
ReadDone(k) ==
  /\ recs[k].sendpc = "reading"
  /\ recs[k].remaining = <<>>
  /\ FinishSend(recs, k)
  /\ UNCHANGED <<messages, audioUrl, isRecording, settings, storage, loaded, mounted,
                 mediaRecorderRef, isRecordingRef, requests, now, nextId, alerts, uncaught>>

\* reader.read() rejects: the byte source fails.
ReadError(k) ==
  /\ recs[k].sendpc = "reading"
  /\ FailSend(k, ReadErrorText)
  /\ UNCHANGED <<audioUrl, isRecording, settings, storage, loaded, mounted,
                 mediaRecorderRef, isRecordingRef, requests, now, nextId, alerts, uncaught>>

\* response.json() settles: it rejects (ok = FALSE), or resolves with data.
JsonSettle(k, ok, data) ==
  /\ recs[k].sendpc = "json"
  /\ IF ~ok THEN FailSend(k, JsonErrorText) /\ UNCHANGED audioUrl
     ELSE
       LET serverUrl == recs[k].cap.settings.serverUrl
           content == IF data.text # <<>> THEN data.text
                      ELSE IF data.response # <<>> THEN data.response
                      ELSE <<"No response">>
       IN /\ messages' = SetState(messages,
                 [i \in DOMAIN messages |->
                    IF messages[i].id = recs[k].messageId
                    THEN [messages[i] EXCEPT
                            !.content = content,
                            !.audioUrl = IF data.audio_url # <<>>
                                         THEN resolveAudioUrl(serverUrl, data.audio_url)
                                         ELSE <<>>,
                            !.toolCalls = data.tool_calls]
                    ELSE messages[i]])
          /\ audioUrl' = IF data.audio_url # <<>>
                         THEN SetState(audioUrl, resolveAudioUrl(serverUrl, data.audio_url))
                         ELSE audioUrl
          /\ FinishSend(recs, k)
  /\ UNCHANGED <<isRecording, settings, storage, loaded, mounted, mediaRecorderRef, isRecordingRef,
                 requests, now, nextId, alerts, uncaught>>

(***************************************************************************)
(* Settings store.  The localStorage item is absent, a text that is not    *)
(* JSON ("garbage"), or a JSON object; doc holds the JSON text of each     *)
(* member (<<>>: the member is missing).  "QUOTE" is the double quote,     *)
(* "BSL" the backslash.                                                    *)
(***************************************************************************)
RECURSIVE Escape(_)
Escape(t) ==
  IF t = <<>> THEN <<>>
  ELSE (CASE Head(t) = "QUOTE" -> <<"BSL", "QUOTE">>
          [] Head(t) = "BSL" -> <<"BSL", "BSL">>
          [] Head(t) = "LF" -> <<"BSL", "n">>
          [] Head(t) = "CR" -> <<"BSL", "r">>
          [] OTHER -> <<Head(t)>>) \o Escape(Tail(t))

RECURSIVE Unescape(_)
Unescape(t) ==
  IF t = <<>> THEN <<>>
  ELSE IF Head(t) = "BSL" /\ Len(t) >= 2
  THEN (CASE t[2] = "n" -> <<"LF">>
          [] t[2] = "r" -> <<"CR">>
          [] OTHER -> <<t[2]>>) \o Unescape(SubSeq(t, 3, Len(t)))
  ELSE <<Head(t)>> \o Unescape(Tail(t))

\* JSON.stringify of a string and of a boolean
StringifyString(t) == <<"QUOTE">> \o Escape(t) \o <<"QUOTE">>
StringifyBool(b) == IF b THEN <<"true">> ELSE <<"false">>

IsJsonString(j) == Len(j) >= 2 /\ Head(j) = "QUOTE" /\ j[Len(j)] = "QUOTE"

\* The string a member's JSON text parses to; <<>> when the member is
\* missing (undefined) or is not a string.
ParseString(j) == IF IsJsonString(j) THEN Unescape(SubSeq(j, 2, Len(j) - 1)) ELSE <<>>

\* JSON.stringify(payload) of the save effect
SavedItem(st) ==
  [kind |-> "json",
   doc |-> [serverUrl |-> StringifyString(st.serverUrl),
            systemPrompt |-> StringifyString(st.systemPrompt),
            streamingEnabled |-> StringifyBool(st.streamingEnabled),
            streamPath |-> StringifyString(st.streamPath),
            modelId |-> StringifyString(st.modelId),
            toolsJson |-> StringifyString(st.toolsJson)]]

\* sanitizeServerUrl without the test for the stale address.
sanitizeKeepingStale(value) ==
  LET trimmed == Trim(value) IN
  IF value = <<>> THEN defaultServerUrl
  ELSE IF trimmed = <<>> THEN defaultServerUrl
  ELSE trimmed

sanitizeServerUrl(value) ==
  LET trimmed == Trim(value) IN
  IF value = <<>> THEN defaultServerUrl
  ELSE IF trimmed = <<>> THEN defaultServerUrl
  ELSE IF StartsWith(trimmed, <<"http://", StaleHost>>)
          \/ StartsWith(trimmed, <<"https://", StaleHost>>) THEN defaultServerUrl
  ELSE trimmed

\* `if (parsed.x) setX(parsed.x)`: a missing or empty member leaves the
\* state at the value of the first render, the built-in default.
OrDefault(parsedValue, default) == IF parsedValue # <<>> THEN parsedValue ELSE default

\* The load effect on the first render, whose state is DefaultSettings.
LoadSettings(item) ==
  IF item.kind # "json" THEN DefaultSettings
  ELSE LET d == item.doc IN
    [serverUrl |-> IF ParseString(d.serverUrl) # <<>>
                   THEN sanitizeServerUrl(ParseString(d.serverUrl))
                   ELSE DefaultSettings.serverUrl,
     systemPrompt |-> OrDefault(ParseString(d.systemPrompt), DefaultSettings.systemPrompt),
     streamingEnabled |-> IF d.streamingEnabled = <<"true">> THEN TRUE
                          ELSE IF d.streamingEnabled = <<"false">> THEN FALSE
                          ELSE DefaultSettings.streamingEnabled,
     streamPath |-> OrDefault(ParseString(d.streamPath), DefaultSettings.streamPath),
     modelId |-> OrDefault(ParseString(d.modelId), DefaultSettings.modelId),
     toolsJson |-> OrDefault(ParseString(d.toolsJson), DefaultSettings.toolsJson)]

\* The values the user types in the settings panel.
ServerUrlValues ==
  {defaultServerUrl, <<>>, <<"SP">>, <<"https://", "h", "/">>, <<"SP", "https://", "h">>,
   <<"http://", StaleHost, ":11236">>}
SystemPromptValues ==
  {DefaultSettings.systemPrompt, <<>>, <<"Say ", "QUOTE", "hi", "QUOTE", "LF", "BSL", "n">>}
StreamPathValues == {DefaultSettings.streamPath, <<>>, <<"/", "s">>}
ModelIdValues == {<<>>, <<"m">>, <<"SP", "m", "SP">>}
ToolsJsonValues ==
  {DefaultSettings.toolsJson, <<>>, <<"SP">>, <<"null">>, <<"[", "tool">>}

\* An onChange handler of the settings panel sets one option; the save
\* effect then writes the whole document.
SetSetting(name, value) ==
  /\ mounted
  /\ settings[name] # value
  /\ settings' = [settings EXCEPT ![name] = value]
  /\ storage' = SavedItem(settings')
  /\ UNCHANGED <<messages, audioUrl, isRecording, isProcessing, loaded, mounted, refVars, recs,
                 requests, now, nextId, alerts, uncaught>>

SetServerUrl(v) == SetSetting("serverUrl", v)
SetSystemPrompt(v) == SetSetting("systemPrompt", v)
ToggleStreaming == SetSetting("streamingEnabled", ~settings.streamingEnabled)
\* the streaming path input is rendered only while streaming is enabled
SetStreamPath(v) == settings.streamingEnabled /\ SetSetting("streamPath", v)
SetModelId(v) == SetSetting("modelId", v)
SetToolsJson(v) == SetSetting("toolsJson", v)

\* What the load effect read: whether there was an item and whether it was
\* JSON, and the serverUrl member of the document.
Loaded(item) ==
  [kind |-> item.kind,
   serverUrl |-> IF item.kind = "json" THEN item.doc.serverUrl ELSE <<>>]

\* No load effect has run yet: the first render of the first page.
NotLoaded == [kind |-> "none", serverUrl |-> <<>>]

\* The page is loaded, or reloaded while nothing is recorded or sent: the
\* first render has the defaults, the load effect reads the item, the save
\* effect writes the state of the render that follows.
Reload ==
  /\ mounted
  /\ recs = <<>>
  /\ settings' = LoadSettings(storage)
  /\ storage' = SavedItem(settings')
  /\ loaded' = Loaded(storage)
  /\ UNCHANGED <<messages, audioUrl, isRecording, isProcessing, mounted, refVars, recs,
                 requests, now, nextId, alerts, uncaught>>

\* The user navigates away: the component is unmounted.  No effect of the
\* component returns a cleanup function.
Unmount ==
  /\ mounted
  /\ mounted' = FALSE
  /\ UNCHANGED <<messages, audioUrl, isRecording, isProcessing, settings, storage, loaded, refVars,
                 recs, requests, now, nextId, alerts, uncaught>>

(***************************************************************************)
(* The application: the state after the first render with no stored item.  *)
(***************************************************************************)
InitRefs ==
  /\ mediaRecorderRef = 0
  /\ isRecordingRef = FALSE
  /\ audioContextRef = 0
  /\ analyserRef = 0
  /\ rafRef = 0
  /\ silenceStartRef = 0
  /\ quietRun = NoRun

Init ==
  /\ messages = <<>>
  /\ audioUrl = <<>>
  /\ isRecording = FALSE
  /\ isProcessing = FALSE
  /\ settings = DefaultSettings
  /\ storage = SavedItem(DefaultSettings)
  /\ loaded = Loaded([kind |-> "absent"])
  /\ mounted = TRUE
  /\ InitRefs
  /\ recs = <<>>
  /\ requests = <<>>
  /\ now = 0
  /\ nextId = 1
  /\ alerts = 0
  /\ uncaught = 0

\* The amplitudes a frame reads, in thousandths: silent, exactly the
\* threshold, loud.
Amplitudes == {0, silenceThreshold, 200}

\* The response streams of the application specifications.
AppStreams ==
  {<<"{", "dHi", "}", "LF">>,
   <<"data:", "[DONE]", "LF", "x", "LF">>}

(***************************************************************************)
(* Spec: the recorder, the silence detector and the request a recording    *)
(* starts, with the settings left at their defaults and a server that      *)
(* answers with an event stream delivered line by line.                    *)
(***************************************************************************)
\* The end of the first line of the remaining bytes.
FirstLineEnd(t) ==
  IF \E i \in DOMAIN t : t[i] = "LF"
  THEN CHOOSE i \in DOMAIN t : t[i] = "LF" /\ \A j \in 1..(i - 1) : t[j] # "LF"
  ELSE Len(t)

RecorderNext(limit) ==
  \/ ClickStart(limit)
  \/ ClickStop
  \/ Unmount
  \/ \E k \in DOMAIN recs :
       \/ \E recorderOk, ctxOk \in BOOLEAN : GumResolve(k, recorderOk, ctxOk)
       \/ GumReject(k)
       \/ \E rms \in Amplitudes, adv \in {0, 1} : Check(k, rms, adv)
       \/ OnStop(k)
       \/ \E outcome \in {"reject", "ok"}, stream \in AppStreams :
            FetchSettle(k, outcome, <<"text/event-stream">>, stream)
       \/ (recs[k].remaining # <<>> /\ ReadChunk(k, FirstLineEnd(recs[k].remaining)))
       \/ ReadDone(k)
       \/ ReadError(k)

Next == RecorderNext(MaxRecordings)

Spec == Init /\ [][Next]_vars

(***************************************************************************)
(* SpecRace: the same, with one more recording, for the behaviours in      *)
(* which two recordings meet.                                              *)
(***************************************************************************)
NextRace == RecorderNext(MaxRecordings + 1)

SpecRace == Init /\ [][NextRace]_vars

(***************************************************************************)
(* SpecSend: the request, with the tools JSON and the streaming switch     *)
(* edited at any time, every outcome of the transport, and no silence      *)
(* detection (the audio context cannot be created).                        *)
(***************************************************************************)
AppToolsValues == {DefaultSettings.toolsJson, <<"[", "tool">>, <<"SP">>, <<"null">>}

SendStream == <<"data:", "{", "dHi", "}", "LF", "data:", "[DONE]", "LF">>

SendBodies ==
  {[text |-> <<"Hello">>, response |-> <<>>, audio_url |-> <<"/", "a.wav">>,
    tool_calls |-> <<RawTool(NoId, "f", <<"{}">>)>>],
   [text |-> <<>>, response |-> <<>>, audio_url |-> <<>>, tool_calls |-> <<>>]}

NextSend ==
  \/ ClickStart(MaxRecordings)
  \/ ClickStop
  \/ ToggleStreaming
  \/ \E v \in AppToolsValues : SetToolsJson(v)
  \/ \E k \in DOMAIN recs :
       \/ GumResolve(k, TRUE, FALSE)
       \/ OnStop(k)
       \/ \E outcome \in {"reject", "notok", "nobody", "ok"} :
            FetchSettle(k, outcome, <<"text/event-stream">>, SendStream)
       \/ (recs[k].remaining # <<>> /\ ReadChunk(k, FirstLineEnd(recs[k].remaining)))
       \/ ReadDone(k)
       \/ ReadError(k)
       \/ \E ok \in BOOLEAN, data \in SendBodies : JsonSettle(k, ok, data)

SpecSend == Init /\ [][NextSend]_vars

(***************************************************************************)
(* SpecDecode: parseStreamChunks on every chunking of a response.  The     *)
(* initial states are those of the application right after fetch resolved  *)
(* with a body: one recording has been stopped, its request is being read. *)
(* The body is up to MaxRecords records, each ended by a newline, then     *)
(* possibly an unterminated rest.                                          *)
(***************************************************************************)
SseType == <<"text/event-stream", "; charset=utf-8">>
NdjsonType == <<"application/x-ndjson">>

DecodeContentTypes == {SseType, NdjsonType}

\* The records a server sends under each framing: a text delta followed by
\* an empty line; a text delta with a tool-call fragment and an audio
\* reference, the line ended by CR LF; the sentinel; an error; a line that is
\* not JSON, with blanks around it and a two-byte character in it.
DecodeRecords(contentType) ==
  IF contentType = SseType
  THEN {<<"data:", "SP", "{", "dHi", "}", "LF">>,
        <<"data:", "{", "dThere", ",", "tc1f", ",", "aRel", "}", "CR">>,
        <<"data:", "SP", "[DONE]">>,
        <<"data:", "SP", "{", "eBoom", "}">>,
        <<"SP", ":", "ping", "xC3", "xA9", "SP">>}
  ELSE {<<"{", "dHi", "}", "LF">>,
        <<"{", "dThere", ",", "tc1f", ",", "aRel", "}", "CR">>,
        <<"[DONE]">>,
        <<"{", "eBoom", "}">>,
        <<"SP", "plain", "xC3", "xA9", "SP">>}

\* The unterminated rest of a body: nothing, or a record cut before its end
\* or left without its newline.
DecodeRests(contentType) ==
  IF contentType = SseType
  THEN {<<>>, <<"data:", "SP", "{", "dHi", "}">>}
  ELSE {<<>>, <<"{", "dHi", "}">>}

RECURSIVE BodiesOf(_, _)
BodiesOf(contentType, n) ==
  IF n = 0 THEN {<<>>}
  ELSE BodiesOf(contentType, n - 1) \cup
       {b \o r \o <<"LF">> : b \in BodiesOf(contentType, n - 1),
                             r \in DecodeRecords(contentType)}

DecodeBodies(contentType) ==
  {b \o rest : b \in BodiesOf(contentType, MaxRecords), rest \in DecodeRests(contentType)}

ReadingRec(contentType, stream) ==
  [NewRec([isRecording |-> FALSE, settings |-> DefaultSettings]) EXCEPT
     !.pc = "sending", !.tracksLive = TRUE, !.sendpc = "reading", !.messageId = 2,
     !.contentType = contentType, !.remaining = stream, !.body = stream, !.fetches = 1]

InitReading(contentType, stream) ==
  /\ messages = <<Message(1, "user", <<"[Audio message]">>), Message(2, "assistant", <<>>)>>
  /\ audioUrl = <<>>
  /\ isRecording = FALSE
  /\ isProcessing = TRUE
  /\ settings = DefaultSettings
  /\ storage = SavedItem(DefaultSettings)
  /\ loaded = Loaded([kind |-> "absent"])
  /\ mounted = TRUE
  /\ mediaRecorderRef = 1
  /\ isRecordingRef = FALSE
  /\ audioContextRef = 0
  /\ analyserRef = 0
  /\ rafRef = 0
  /\ silenceStartRef = 0
  /\ quietRun = NoRun
  /\ recs = <<ReadingRec(contentType, stream)>>
  /\ requests = <<BuildRequest(1, DefaultSettings)>>
  /\ now = 0
  /\ nextId = 3
  /\ alerts = 0
  /\ uncaught = 0

InitDecode ==
  \E contentType \in DecodeContentTypes :
    \E stream \in DecodeBodies(contentType) : InitReading(contentType, stream)

NextDecode ==
  \E k \in DOMAIN recs :
    \/ \E n \in 0..Len(recs[k].remaining) : ReadChunk(k, n)
    \/ ReadDone(k)
    \/ ReadError(k)

SpecDecode == InitDecode /\ [][NextDecode]_vars

(***************************************************************************)
(* SpecFold: handleStreamEvent on the tool-call fragments of one response. *)
(* Each step is the read of one complete line holding one fragment, in the *)
(* flat shape (tool_call), the array shape (tool_calls) or the nested      *)
(* shape (choices[].delta.tool_calls[].function).  The body of the request *)
(* is the sequence of the fragments delivered so far, and shape is the     *)
(* shape in which the last one came.                                       *)
(***************************************************************************)
Fragments ==
  {RawTool("1", "f", <<"a">>), RawTool("1", "", <<"b">>), RawTool("1", "g", <<"c">>),
   RawTool("2", "g", <<"a">>), RawTool("2", "", <<"b">>),
   RawTool(NoId, "f", <<"a">>), RawTool(NoId, "", <<"b">>),
   RawTool("", "f", <<"a">>), RawTool("", "", <<"b">>)}

EventOf(shape, frag) ==
  CASE shape = "flat" -> [EmptyEvent EXCEPT !.tool_call = <<frag>>]
    [] shape = "array" -> [EmptyEvent EXCEPT !.tool_calls = <<frag>>]
    [] shape = "nested" ->
         [EmptyEvent EXCEPT !.choices =
            <<[content |-> <<>>,
               tool_calls |-> <<FnTool(frag.id, <<Fn(frag.name, frag.arguments)>>)>>]>>]

InitFold == InitReading(NdjsonType, <<>>)

FoldFragment(k, shape, frag) ==
  /\ recs[k].sendpc = "reading"
  /\ Len(recs[k].body) < MaxEvents
  /\ \E h \in {handleStreamEvent([messages |-> messages, audioUrl |-> audioUrl],
                                 recs[k].messageId, EventOf(shape, frag),
                                 recs[k].cap.settings.serverUrl)} :
       /\ messages' = SetState(messages, h.messages)
       /\ audioUrl' = SetState(audioUrl, h.audioUrl)
  /\ recs' = [recs EXCEPT ![k].body = Append(@, frag), ![k].shape = shape]
  /\ UNCHANGED <<isRecording, isProcessing, settings, storage, loaded, mounted, refVars,
                 requests, now, nextId, alerts, uncaught>>

NextFold ==
  \E k \in DOMAIN recs :
    \/ \E shape \in {"flat", "array", "nested"}, frag \in Fragments :
         FoldFragment(k, shape, frag)
    \/ ReadDone(k)

SpecFold == InitFold /\ [][NextFold]_vars

(***************************************************************************)
(* SpecSettings: the settings panel and page loads.  The initial states    *)
(* are those of the first render, before its effects, with any item left   *)
(* in localStorage by an earlier visit; the effects run before any event   *)
(* of the user.                                                            *)
(***************************************************************************)
StoredItems ==
  {[kind |-> "absent"], [kind |-> "garbage"],
   SavedItem(DefaultSettings),
   SavedItem([DefaultSettings EXCEPT !.serverUrl = <<"http://", StaleHost, ":11236">>,
                                     !.streamingEnabled = FALSE]),
   SavedItem([DefaultSettings EXCEPT !.serverUrl = <<"https://", StaleHost>>,
                                     !.modelId = <<"m">>])}

InitSettings ==
  \E item \in StoredItems :
    /\ settings = DefaultSettings
    /\ storage = item
    /\ loaded = NotLoaded
    /\ messages = <<>>
    /\ audioUrl = <<>>
    /\ isRecording = FALSE
    /\ isProcessing = FALSE
    /\ mounted = TRUE
    /\ InitRefs
    /\ recs = <<>>
    /\ requests = <<>>
    /\ now = 0
    /\ nextId = 1
    /\ alerts = 0
    /\ uncaught = 0

PageLoaded == loaded # NotLoaded

NextSettings ==
  \/ PageLoaded /\ \E v \in ServerUrlValues : SetServerUrl(v)
  \/ PageLoaded /\ \E v \in SystemPromptValues : SetSystemPrompt(v)
  \/ PageLoaded /\ ToggleStreaming
  \/ PageLoaded /\ \E v \in StreamPathValues : SetStreamPath(v)
  \/ PageLoaded /\ \E v \in ModelIdValues : SetModelId(v)
  \/ PageLoaded /\ \E v \in ToolsJsonValues : SetToolsJson(v)
  \/ Reload

SpecSettings == InitSettings /\ [][NextSettings]_vars

(***************************************************************************)
(* Properties of parseStreamChunks (SpecDecode).  What a response should   *)
(* leave in its message is stated from the records of the body, without    *)
(* the decoder: the complete lines of the body, up to the first sentinel.  *)
(***************************************************************************)
Range(t) == {t[i] : i \in DOMAIN t}

CompleteLines(body) == LET ls == Split(body) IN SubSeq(ls, 1, Len(ls) - 1)

IsDoneRecord(line) == "[DONE]" \in Range(line)
IsErrorRecord(line) == "eBoom" \in Range(line)
IsPlainRecord(line) == Range(line) \cap {"ping", "plain"} # {}

\* The lines in front of the first sentinel.
BeforeDone(lines) ==
  IF \E i \in DOMAIN lines : IsDoneRecord(lines[i])
  THEN SubSeq(lines, 1, (CHOOSE i \in DOMAIN lines :
                           /\ IsDoneRecord(lines[i])
                           /\ \A j \in 1..(i - 1) : ~IsDoneRecord(lines[j])) - 1)
  ELSE lines

\* The text a record adds to the content.  plain is what a line that is not
\* JSON adds.
RecordText(line, plain) ==
  CASE "dHi" \in Range(line) -> <<"Hi">>
    [] "dThere" \in Range(line) -> <<"SP", "there">>
    [] IsErrorRecord(line) -> <<"LF", "[Error] ", "boom">>
    [] IsPlainRecord(line) -> plain
    [] OTHER -> <<>>

PlainTrimmed(contentType) == IF contentType = NdjsonType THEN <<"plain", "e'">> ELSE <<>>

TextOf(lines, plain) == Concat([i \in DOMAIN lines |-> RecordText(lines[i], plain)])

ExpectedContent(k) ==
  TextOf(BeforeDone(CompleteLines(recs[k].body)), PlainTrimmed(recs[k].contentType))

\* Every fragment of the bodies has the id "1": one entry, the arguments of
\* the fragments one after the other.
ExpectedToolCalls(k) ==
  LET ls == BeforeDone(CompleteLines(recs[k].body))
      n == Cardinality({i \in DOMAIN ls : "tc1f" \in Range(ls[i])})
  IN IF n = 0 THEN <<>>
     ELSE <<RawTool("1", "f", [i \in 1..n |-> "{city:"])>>

ExpectedAudio(k) ==
  LET ls == BeforeDone(CompleteLines(recs[k].body))
  IN IF \E i \in DOMAIN ls : "aRel" \in Range(ls[i])
     THEN <<"https://", "spark", "/", "a.wav">> ELSE <<>>

\* The assistant message the request of recording k fills.
Target(k) == messages[CHOOSE i \in DOMAIN messages : messages[i].id = recs[k].messageId]

Reading(k) == recs[k].sendpc = "reading"
Completed(k) == recs[k].sendpc = "finished" /\ recs[k].reports = 0

\* The request of recording k read in a single chunk, and the rest of it read
\* in a single chunk from where the decoder stands.
FreshMessages(k) ==
  <<Message(recs[k].messageId - 1, "user", <<"[Audio message]">>),
    Message(recs[k].messageId, "assistant", <<>>)>>

WholeInOneChunk(k) ==
  ChunkStep([messages |-> FreshMessages(k), audioUrl |-> <<>>, buffer |-> <<>>,
             pending |-> "", returned |-> FALSE],
            recs[k].messageId, recs[k].body, recs[k].contentType, defaultServerUrl)

RestInOneChunk(k) ==
  ChunkStep([messages |-> messages, audioUrl |-> audioUrl, buffer |-> recs[k].buffer,
             pending |-> recs[k].pending, returned |-> FALSE],
            recs[k].messageId, recs[k].remaining, recs[k].contentType, defaultServerUrl)

\* C1: however the bytes of a response are cut into chunks (in the middle of
\* a line, of a character, with empty chunks), the messages and the audio URL
\* end as they do when the whole response arrives as one chunk; at every
\* point of the reading, delivering the rest as one chunk gives that result.
C1_ChunkBoundaryIndependence ==
  \A k \in DOMAIN recs :
    /\ Reading(k) =>
         LET whole == WholeInOneChunk(k)
             rest == RestInOneChunk(k)
         IN /\ rest.messages = whole.messages
            /\ rest.audioUrl = whole.audioUrl
            /\ rest.returned = whole.returned
    /\ Completed(k) =>
         LET whole == WholeInOneChunk(k)
         IN messages = whole.messages /\ audioUrl = whole.audioUrl

\* A chunk has ended in the middle of a line and of a two-byte character
\* after an earlier record was folded.
C1_Witness ==
  \E k \in DOMAIN recs :
    /\ Reading(k)
    /\ recs[k].pending = LeadByte
    /\ recs[k].buffer # <<>>
    /\ Target(k).content # <<>>
    /\ Target(k).toolCalls # <<>>

\* C2: under event-stream framing the content is, at every point of the
\* reading, a prefix of the texts of the records in front of the first
\* [DONE], in stream order; when the decoding has ended it is all of them,
\* and tool calls and audio come from those records only.
C2_DeltasUntilDone ==
  \A k \in DOMAIN recs :
    (IsSse(recs[k].contentType) /\ recs[k].reports = 0 /\ recs[k].sendpc # "idle") =>
      /\ IsPrefix(Target(k).content, ExpectedContent(k))
      /\ Completed(k) =>
           /\ Target(k).content = ExpectedContent(k)
           /\ Target(k).toolCalls = ExpectedToolCalls(k)
           /\ Target(k).audioUrl = ExpectedAudio(k)
           /\ audioUrl = ExpectedAudio(k)

\* "Hi", [DONE], then a record with a delta and a tool call: the content is
\* "Hi" and there is no tool call.
C2_Witness ==
  \E k \in DOMAIN recs :
    /\ Completed(k)
    /\ recs[k].body = <<"data:", "SP", "{", "dHi", "}", "LF", "LF",
                        "data:", "SP", "[DONE]", "LF",
                        "data:", "{", "dThere", ",", "tc1f", ",", "aRel", "}", "CR", "LF">>
    /\ Target(k).content = <<"Hi">>
    /\ Target(k).toolCalls = <<>>

\* The lines that follow the first error record, up to the first sentinel.
AfterFirstError(lines) ==
  LET ls == BeforeDone(lines)
      e == CHOOSE i \in DOMAIN ls :
             IsErrorRecord(ls[i]) /\ \A j \in 1..(i - 1) : ~IsErrorRecord(ls[j])
  IN SubSeq(ls, e + 1, Len(ls))

HasError(lines) == \E i \in DOMAIN BeforeDone(lines) : IsErrorRecord(BeforeDone(lines)[i])

EndsWith(t, s) == Len(s) <= Len(t) /\ SubSeq(t, Len(t) - Len(s) + 1, Len(t)) = s

\* C5: under either framing, when the decoding of a response with an error
\* record has ended, the content ends with the error annotation followed by
\* what every later record in front of [DONE] or the end adds, and the tool
\* calls and audio of those later records are in the message.
C5_ErrorDoesNotStopDecoding ==
  \A k \in DOMAIN recs :
    (Completed(k) /\ recs[k].fetches = 1 /\ HasError(CompleteLines(recs[k].body))) =>
      LET later == AfterFirstError(CompleteLines(recs[k].body))
      IN /\ EndsWith(Target(k).content,
                     ErrorAnnotation(<<"boom">>) \o
                       TextOf(later, PlainTrimmed(recs[k].contentType)))
         /\ (\E i \in DOMAIN later : "tc1f" \in Range(later[i])) =>
              /\ Target(k).toolCalls # <<>>
              /\ Target(k).audioUrl # <<>>

\* An error record, then a record with a delta, a tool call and audio.
C5_Witness ==
  \E k \in DOMAIN recs :
    /\ Completed(k)
    /\ HasError(CompleteLines(recs[k].body))
    /\ Target(k).content = <<"LF", "[Error] ", "boom", "SP", "there">>
    /\ Target(k).toolCalls # <<>>

\* TextDecoder on a whole line
DecodedLine(line) == Decode("", line).text

\* What the lines add when every line that is not JSON, the sentinel and the
\* blank line among them, is folded as it was read.
WholeLineText(lines) ==
  Concat([i \in DOMAIN lines |->
            IF \E f \in DOMAIN FieldKey : f \in Range(lines[i])
            THEN RecordText(lines[i], <<>>)
            ELSE DecodedLine(lines[i])])

RECURSIVE ArgsOf(_, _)
\* The arguments of the fragments with the given id, in arrival order.
ArgsOf(frags, id) ==
  IF frags = <<>> THEN <<>>
  ELSE (IF Head(frags).id = id THEN Head(frags).arguments ELSE <<>>) \o ArgsOf(Tail(frags), id)

MergedInto(k, id) ==
  LET calls == Target(k).toolCalls
  IN /\ Cardinality({i \in DOMAIN calls : calls[i].id = id}) = 1
     /\ \A i \in DOMAIN calls : calls[i].id = id => calls[i].arguments = ArgsOf(recs[k].body, id)

IdsReceived(k) == {recs[k].body[i].id : i \in DOMAIN recs[k].body} \ {NoId}

\* C3 as stated: the fragments that carry the same id, whatever it is, are
\* merged into exactly one entry holding their arguments in arrival order.
C3_SameIdMerged ==
  \A k \in DOMAIN recs : \A id \in IdsReceived(k) : MergedInto(k, id)

\* C3, amended: the fragments that carry the same non-empty id are merged
\* into exactly one entry holding their arguments in arrival order, whatever
\* fragments of other ids or without id arrive in between.
C3_SameNonEmptyIdMerged ==
  \A k \in DOMAIN recs : \A id \in IdsReceived(k) \ {""} : MergedInto(k, id)

\* Two fragments of id "1" with a fragment of id "2" between them.
C3_Witness ==
  \E k \in DOMAIN recs :
    /\ Len(recs[k].body) = 3
    /\ recs[k].body[1].id = "1" /\ recs[k].body[2].id = "2" /\ recs[k].body[3].id = "1"
    /\ Len(Target(k).toolCalls) = 2
    /\ Target(k).toolCalls[1].arguments = <<"a", "b">>

(***************************************************************************)
(* Properties of the recorder and of cancellation (Spec).                  *)
(***************************************************************************)
\* C4: once the frame callback of a recording has seen silence for longer
\* than the quiet period and taken the auto-stop branch, the recorder is no
\* longer recording and isRecording is false, and the branch is taken at
\* most once per recording.
C4_AutoStopForcesIdle ==
  \A k \in DOMAIN recs :
    /\ recs[k].autoStops <= 1
    /\ recs[k].autoStops = 1 => (recs[k].pc # "recording" /\ (mounted => ~isRecording))

\* C9: once the component is unmounted no capture stream is live and no
\* request is being fetched or read, and no exception went uncaught.
C9_CancellationReleases ==
  ~mounted =>
    /\ \A k \in DOMAIN recs :
         /\ ~recs[k].tracksLive
         /\ recs[k].sendpc \notin {"fetching", "reading", "json"}
    /\ uncaught = 0

(***************************************************************************)
(* Properties of sendAudio (SpecSend).                                     *)
(***************************************************************************)
RequestsOf(k) == {i \in DOMAIN requests : requests[i].rec = k}

ErrorTexts == {FailedToFetchText, ServerErrorText, ReadErrorText, JsonErrorText}

Sends(k) == k \in DOMAIN recs /\ recs[k].pc = "stopping" /\ recs'[k].pc # "stopping"

\* C8: when sendAudio starts with a tools text that is not blank and not
\* valid JSON, the step reports the validation error, issues no request and
\* ends the send; and no request ever carries a tools field that is not
\* valid JSON.
C8_InvalidToolsNeverSent ==
  /\ [](\A i \in DOMAIN requests :
          requests[i].tools = <<>> \/ requests[i].tools \in ValidJsonDocs)
  /\ [][\A k \in DOMAIN recs :
          (Sends(k) /\ Trim(recs[k].cap.settings.toolsJson) # <<>>
                    /\ RemoveSpace(recs[k].cap.settings.toolsJson) \notin ValidJsonDocs) =>
            /\ requests' = requests
            /\ recs'[k].fetches = 0
            /\ recs'[k].sendpc = "finished"
            /\ messages'[Len(messages')].content = ToolsErrorText]_vars

\* A send was refused for its tools text: the error is the last message and
\* no request was issued.
C8_Witness ==
  /\ requests = <<>>
  /\ messages # <<>>
  /\ messages[Len(messages)].content = ToolsErrorText
  /\ \E k \in DOMAIN recs : recs[k].pc = "done" /\ recs[k].fetches = 0

(***************************************************************************)
(* Properties of the settings store (SpecSettings).                        *)
(***************************************************************************)
\* C10: a reload of a loaded page leaves every option, an empty one too, at
\* the value it had before the reload.  The server URL is taken among the
\* values that the sanitisation on load keeps as they are, so that only the
\* restoring of the saved document is in question.
C10_SettingsRoundTrip ==
  [][(Reload /\ PageLoaded /\ sanitizeServerUrl(settings.serverUrl) = settings.serverUrl)
       => settings' = settings]_vars

(***************************************************************************)
(* SpecResolve: resolveAudioUrl on the audio references of one response.   *)
(* The initial states are those of a request being read, started with any  *)
(* of the server URLs below in the settings; each step folds one record    *)
(* that carries an audio reference.  The body of the request is the        *)
(* sequence of the references received.                                    *)
(***************************************************************************)
ResolveServerUrls ==
  {<<"https://", "h">>, <<"https://", "h", "/">>, <<"https://", "h", "/", "/">>,
   <<"http://", "h", ":8080", "/", "api", "/">>}

AudioRefs ==
  {<<"/", "audio", "/", "1.wav">>, <<"audio", "/", "1.wav">>,
   <<"/", "/", "cdn", "/", "1.wav">>,
   <<"https://", "cdn", "/", "b.wav">>, <<"http://", "cdn", "/", "b.wav">>}

InitResolve ==
  \E u \in ResolveServerUrls :
    LET st == [DefaultSettings EXCEPT !.serverUrl = u] IN
    /\ messages = <<Message(1, "user", <<"[Audio message]">>), Message(2, "assistant", <<>>)>>
    /\ audioUrl = <<>>
    /\ isRecording = FALSE
    /\ isProcessing = TRUE
    /\ settings = st
    /\ storage = SavedItem(st)
    /\ loaded = Loaded([kind |-> "absent"])
    /\ mounted = TRUE
    /\ mediaRecorderRef = 1
    /\ isRecordingRef = FALSE
    /\ audioContextRef = 0
    /\ analyserRef = 0
    /\ rafRef = 0
    /\ silenceStartRef = 0
    /\ quietRun = NoRun
    /\ recs = <<[ReadingRec(NdjsonType, <<>>) EXCEPT !.cap.settings = st]>>
    /\ requests = <<BuildRequest(1, st)>>
    /\ now = 0
    /\ nextId = 3
    /\ alerts = 0
    /\ uncaught = 0

\* A record with an audio reference, in the audio_url or in the url field,
\* is folded.
FoldAudio(k, field, ref) ==
  /\ recs[k].sendpc = "reading"
  /\ Len(recs[k].body) < MaxEvents
  /\ \E h \in {handleStreamEvent([messages |-> messages, audioUrl |-> audioUrl],
                                 recs[k].messageId, [EmptyEvent EXCEPT ![field] = ref],
                                 recs[k].cap.settings.serverUrl)} :
       /\ messages' = SetState(messages, h.messages)
       /\ audioUrl' = SetState(audioUrl, h.audioUrl)
  /\ recs' = [recs EXCEPT ![k].body = Append(@, ref)]
  /\ UNCHANGED <<isRecording, isProcessing, settings, storage, loaded, mounted, refVars,
                 requests, now, nextId, alerts, uncaught>>

NextResolve ==
  \E k \in DOMAIN recs :
    \/ \E field \in {"audio_url", "url"}, ref \in AudioRefs : FoldAudio(k, field, ref)
    \/ ReadDone(k)

SpecResolve == InitResolve /\ [][NextResolve]_vars

RECURSIVE StripAllTrailing(_)
StripAllTrailing(u) ==
  IF u # <<>> /\ u[Len(u)] = "/" THEN StripAllTrailing(SubSeq(u, 1, Len(u) - 1)) ELSE u

RECURSIVE StripAllLeading(_)
StripAllLeading(u) == IF u # <<>> /\ Head(u) = "/" THEN StripAllLeading(Tail(u)) ELSE u

IsAbsolute(ref) == ref # <<>> /\ Head(ref) \in {"http://", "https://"}

\* The reference resolved with exactly one slash between server and path.
JoinedByOneSlash(serverUrl, ref) ==
  StripAllTrailing(serverUrl) \o <<"/">> \o StripAllLeading(ref)

Resolved(serverUrl, ref) == IF IsAbsolute(ref) THEN ref ELSE JoinedByOneSlash(serverUrl, ref)

\* The last reference received by the request of recording k.
LastRef(k) == recs[k].body[Len(recs[k].body)]

SlashesAtEnd(u) == Len(u) - Len(StripAllTrailing(u))
SlashesAtStart(u) == Len(u) - Len(StripAllLeading(u))

\* C11 as stated: an absolute reference is kept, any other one is joined to
\* the server URL with exactly one slash between them, however the server
\* URL ends and the reference starts.
C11_ExactlyOneSlash ==
  \A k \in DOMAIN recs :
    (recs[k].body # <<>> /\ recs[k].sendpc = "reading") =>
      /\ audioUrl = Resolved(recs[k].cap.settings.serverUrl, LastRef(k))
      /\ Target(k).audioUrl = audioUrl

\* C11, amended: an absolute reference is kept; any other one is joined to
\* the server URL with exactly one slash between them when the server URL
\* ends with at most one slash and the reference starts with at most one.
C11_OneSlashForSingleSlashes ==
  \A k \in DOMAIN recs :
    (/\ recs[k].body # <<>> /\ recs[k].sendpc = "reading"
     /\ (IsAbsolute(LastRef(k))
         \/ (SlashesAtEnd(recs[k].cap.settings.serverUrl) <= 1
             /\ SlashesAtStart(LastRef(k)) <= 1))) =>
      /\ audioUrl = Resolved(recs[k].cap.settings.serverUrl, LastRef(k))
      /\ Target(k).audioUrl = audioUrl

\* "/audio/1.wav" against "https://h/" gives "https://h/audio/1.wav".
C11_Witness ==
  \E k \in DOMAIN recs :
    /\ recs[k].cap.settings.serverUrl = <<"https://", "h", "/">>
    /\ recs[k].body # <<>>
    /\ LastRef(k) = <<"/", "audio", "/", "1.wav">>
    /\ audioUrl = <<"https://", "h", "/", "audio", "/", "1.wav">>

(***************************************************************************)
(* Properties of the names of tool calls (SpecFold).                       *)
(***************************************************************************)
\* The fragment received in this step by the request of recording k.
Receives(k) == k \in DOMAIN recs /\ Len(recs'[k].body) = Len(recs[k].body) + 1
Received(k) == recs'[k].body[Len(recs'[k].body)]

\* C12: when a fragment that carries no name has the id of an entry whose
\* name is not empty, the entry has the same name after the fragment is
\* folded.
C12_NameKept ==
  [][\A k \in DOMAIN recs :
       (Receives(k) /\ Truthy(Received(k).id) /\ Received(k).name = "") =>
         \A i \in DOMAIN Target(k).toolCalls :
           (Target(k).toolCalls[i].id = Received(k).id /\ Target(k).toolCalls[i].name # "") =>
             Target(k)'.toolCalls[i].name = Target(k).toolCalls[i].name]_vars

(***************************************************************************)
(* Properties of the content while a response is read (SpecDecode).        *)
(***************************************************************************)
\* C13: in every step taken while the response of a recording is read, a
\* failure of the byte source included, the content the target message had
\* is a prefix of the content it has afterwards.
C13_ContentOnlyAppended ==
  [][\A k \in DOMAIN recs :
       Reading(k) => IsPrefix(Target(k).content, Target(k)'.content)]_vars

(***************************************************************************)
(* Properties of the capture device (SpecRace).                            *)
(***************************************************************************)
LiveStreams == {k \in DOMAIN recs : recs[k].tracksLive}
ActiveRecorders == {k \in DOMAIN recs : recs[k].pc = "recording"}

\* C14: at most one capture stream is live and at most one MediaRecorder is
\* recording at any time, and every live stream is the stream of the
\* recorder that mediaRecorderRef holds.
C14_CaptureExclusive ==
  /\ Cardinality(LiveStreams) <= 1
  /\ Cardinality(ActiveRecorders) <= 1
  /\ \A k \in LiveStreams : mediaRecorderRef = k

(***************************************************************************)
(* The silence detection when a recording starts (SpecRace).               *)
(***************************************************************************)
\* Recording k starts: startRecording goes on after getUserMedia resolved
\* and the MediaRecorder was constructed and started.
Starts(k) == k \in DOMAIN recs /\ recs[k].pc = "gum" /\ recs'[k].pc = "recording"

\* The detection of recording k is in place: its audio context is open, the
\* refs hold its context and its analyser, and its frame callback is
\* scheduled.
DetectionInPlace(k) ==
  /\ recs[k].ctx = "open"
  /\ audioContextRef = k
  /\ analyserRef = k
  /\ recs[k].raf

C20_StartFresh ==
  [][\A k \in DOMAIN recs :
       Starts(k) =>
         /\ silenceStartRef' = 0
         /\ \A j \in DOMAIN recs : j # k => ~recs'[j].raf /\ recs'[j].ctx # "open"]_vars

\* mediaRecorderRef holds the recording that started last.
C20_NoLaterTeardown ==
  [][\A k \in DOMAIN recs :
       (/\ mediaRecorderRef = k /\ mediaRecorderRef' = k
        /\ recs[k].pc = "recording" /\ recs'[k].pc = "recording"
        /\ DetectionInPlace(k)
        /\ mounted')
         => DetectionInPlace(k)']_vars

\* C20: whenever a recording starts, the quiet-start timestamp is unset and
\* no frame callback or audio context of another recording is left; and
\* while the recording goes on, its detection stays in place: nothing that
\* an earlier recording left behind tears it down.
C20_DetectionResetOnStart == C20_StartFresh /\ C20_NoLaterTeardown

(***************************************************************************)
(* SpecStall: the application of Spec with the scheduling the browser      *)
(* guarantees: once a MediaRecorder is stopped its stop event is           *)
(* dispatched.  Nothing obliges the user to click nor the server to        *)
(* answer or to end a response.                                            *)
(***************************************************************************)
StopEvent == \E k \in DOMAIN recs : OnStop(k)

SpecStall == Init /\ [][Next]_vars /\ WF_vars(StopEvent)

\* C15: whenever the recorder of a recording has been stopped, the tracks of
\* its capture stream are stopped at some later point, whatever the server
\* does.
C15_IdleReleasesDevice ==
  \A k \in 1..MaxRecordings :
    [](((k \in DOMAIN recs) /\ recs[k].pc = "stopping")
         => <>((k \in DOMAIN recs) /\ ~recs[k].tracksLive))

(***************************************************************************)
(* Properties of the end of a stream (SpecDecode).                         *)
(***************************************************************************)
\* The body up to its last newline, and what follows it.
Terminated(body) ==
  IF \E i \in DOMAIN body : body[i] = "LF"
  THEN SubSeq(body, 1, CHOOSE i \in DOMAIN body :
                         body[i] = "LF" /\ \A j \in (i + 1)..Len(body) : body[j] # "LF")
  ELSE <<>>

Unterminated(body) == SubSeq(body, Len(Terminated(body)) + 1, Len(body))

\* The given body read as one chunk by the request of recording k.
InOneChunk(k, body) ==
  ChunkStep([messages |-> FreshMessages(k), audioUrl |-> <<>>, buffer |-> <<>>,
             pending |-> "", returned |-> FALSE],
            recs[k].messageId, body, recs[k].contentType, defaultServerUrl)

\* C16: when the decoding has ended, at the end of the source or at [DONE],
\* the message holds what the complete lines of the body give and nothing of
\* the text that follows the last newline: it is the message of the same
\* body without that text.
C16_UnterminatedRestDiscarded ==
  \A k \in DOMAIN recs :
    (Completed(k) /\ recs[k].fetches = 1 /\ Unterminated(recs[k].body) # <<>>) =>
      /\ Target(k).content = ExpectedContent(k)
      /\ Target(k).toolCalls = ExpectedToolCalls(k)
      /\ Target(k).audioUrl = ExpectedAudio(k)
      /\ messages = InOneChunk(k, Terminated(recs[k].body)).messages

\* One record, then a whole record without its newline: only the first is
\* in the content.
C16_Witness ==
  \E k \in DOMAIN recs :
    /\ Completed(k)
    /\ recs[k].body = <<"{", "dHi", "}", "LF", "LF", "{", "dHi", "}">>
    /\ Target(k).content = <<"Hi">>

(***************************************************************************)
(* Properties of the records that are not JSON under event-stream framing  *)
(* (SpecDecode).                                                           *)
(***************************************************************************)
RECURSIVE JoinLines(_)
\* The inverse of Split: the segments with a newline between them.
JoinLines(ls) ==
  IF ls = <<>> THEN <<>>
  ELSE IF Len(ls) = 1 THEN ls[1]
  ELSE ls[1] \o <<"LF">> \o JoinLines(Tail(ls))

IsParsable(line) == ~IsPlainRecord(line)

\* The body without its lines that are not JSON.
WithoutPlain(body) == JoinLines(SelectSeq(Split(body), IsParsable))

HasPlain(body) ==
  \E i \in DOMAIN BeforeDone(CompleteLines(body)) :
    IsPlainRecord(BeforeDone(CompleteLines(body))[i])

\* C17: under event-stream framing, when the decoding of a body with lines
\* that are not JSON has ended, every message and the audio URL are what the
\* same body without those lines gives: such a line changes nothing and the
\* records after it are folded.
C17_UnparsableSseDropped ==
  \A k \in DOMAIN recs :
    (Completed(k) /\ recs[k].fetches = 1 /\ IsSse(recs[k].contentType)
       /\ HasPlain(recs[k].body)) =>
      LET other == InOneChunk(k, WithoutPlain(recs[k].body))
      IN /\ messages = other.messages
         /\ audioUrl = other.audioUrl
         /\ Target(k).content = ExpectedContent(k)

\* A line that is not JSON, then a record with a delta, a tool call and audio.
C17_Witness ==
  \E k \in DOMAIN recs :
    /\ Completed(k)
    /\ IsSse(recs[k].contentType)
    /\ CompleteLines(recs[k].body) # <<>>
    /\ IsPlainRecord(CompleteLines(recs[k].body)[1])
    /\ Target(k).content = <<"SP", "there">>
    /\ Target(k).toolCalls # <<>>
    /\ audioUrl # <<>>

(***************************************************************************)
(* SpecTalk: a conversation of several requests, one after the other or    *)
(* overlapping, streamed or not (the streaming switch as an earlier visit  *)
(* left it), without silence detection.                                    *)
(***************************************************************************)
TalkStream ==
  <<"data:", "{", "dThere", ",", "tc1f", ",", "aRel", "}", "LF",
    "data:", "{", "dHi", "}", "LF">>

InitTalk ==
  \E streaming \in BOOLEAN :
    LET st == [DefaultSettings EXCEPT !.streamingEnabled = streaming] IN
    /\ messages = <<>>
    /\ audioUrl = <<>>
    /\ isRecording = FALSE
    /\ isProcessing = FALSE
    /\ settings = st
    /\ storage = SavedItem(st)
    /\ loaded = Loaded([kind |-> "absent"])
    /\ mounted = TRUE
    /\ InitRefs
    /\ recs = <<>>
    /\ requests = <<>>
    /\ now = 0
    /\ nextId = 1
    /\ alerts = 0
    /\ uncaught = 0

NextTalk ==
  \/ ClickStart(MaxRecordings + 1)
  \/ ClickStop
  \/ \E k \in DOMAIN recs :
       \/ GumResolve(k, TRUE, FALSE)
       \/ OnStop(k)
       \/ \E outcome \in {"reject", "ok"} :
            FetchSettle(k, outcome, <<"text/event-stream">>, TalkStream)
       \/ (recs[k].remaining # <<>> /\ ReadChunk(k, FirstLineEnd(recs[k].remaining)))
       \/ ReadDone(k)
       \/ ReadError(k)
       \/ \E ok \in BOOLEAN, data \in SendBodies : JsonSettle(k, ok, data)

SpecTalk == InitTalk /\ [][NextTalk]_vars

\* The message with this id is the target of a request in flight.
IsActiveTarget(id) ==
  \E k \in DOMAIN recs :
    recs[k].sendpc \in {"fetching", "reading", "json"} /\ recs[k].messageId = id

\* C18: in every step every message stays in the list with its id and its
\* role, and a message that changes is the target of a request in flight:
\* the content, audio URL and tool calls of all the others are as before.
C18_OnlyTargetChanges ==
  [][\A i \in DOMAIN messages :
       /\ i \in DOMAIN messages'
       /\ messages'[i].id = messages[i].id
       /\ messages'[i].role = messages[i].role
       /\ messages'[i] # messages[i] => IsActiveTarget(messages[i].id)]_vars

\* Two requests were answered: the first message is complete and untouched
\* by the folds of the second.
C18_Witness ==
  /\ Len(messages) = 4
  /\ messages[2].content = <<"SP", "there", "Hi">>
  /\ Len(messages[2].toolCalls) = 1
  /\ messages[4].content = <<"SP", "there">>
  /\ Len(messages[4].toolCalls) = 1

(***************************************************************************)
(* Properties of the silence detector (Spec).                              *)
(***************************************************************************)
\* The frame callback of recording k takes the auto-stop branch in this step.
AutoStops(k) == k \in DOMAIN recs /\ recs'[k].autoStops > recs[k].autoStops

\* C19: the auto-stop branch is taken only at a sample that ends a run of
\* consecutive samples below the threshold lasting longer than the quiet
\* period; while the detector runs, the start of the silence it keeps is
\* unset after a sample at or above the threshold.
C19_LoudSampleResets ==
  /\ [][\A k \in DOMAIN recs :
          AutoStops(k) =>
            /\ quietRun.since # 0
            /\ DateNow(now') - quietRun.since > autoStopSilenceMs]_vars
  /\ [](quietRun.since = 0 => silenceStartRef = 0)

\* A sample at or above the threshold ended a silence, and the auto-stop
\* branch was then taken at the end of a later silence that lasted longer
\* than the quiet period.
C19_Witness ==
  \E k \in DOMAIN recs :
    /\ recs[k].autoStops = 1
    /\ quietRun.wasLoud
    /\ quietRun.since # 0
    /\ silenceStartRef = quietRun.since
    /\ DateNow(now) - quietRun.since > autoStopSilenceMs

(***************************************************************************)
(* The settings a request is built from (SpecSend).                        *)
(***************************************************************************)
\* The request that the onstop handler of recording k issues in this step.
Issued(k) == Sends(k) /\ Len(requests') = Len(requests) + 1

\* C21: the request goes to the streaming endpoint exactly when the
\* streamingEnabled setting is true at the moment the request is built, and
\* to /process-audio otherwise; every setting as it is when the recording
\* stops, changed during the recording or not, is the one the request
\* carries.
C21_RequestHonoursSettings ==
  [][\A k \in DOMAIN recs :
       Issued(k) =>
         LET r == requests'[Len(requests')] IN
           /\ r.streaming = settings.streamingEnabled
           /\ r.url = StripSlash(settings.serverUrl) \o
                        (IF settings.streamingEnabled THEN settings.streamPath
                         ELSE <<"/", "process-audio">>)
           /\ r.tools = ToolsField(settings.toolsJson)]_vars

(***************************************************************************)
(* Properties of the shapes of tool-call fragments (SpecFold).             *)
(***************************************************************************)
\* The tool calls of the target of recording k after the fragment is folded,
\* had it come in the given shape, from the messages as they are.
FoldedAs(k, shape, frag) ==
  LET h == handleStreamEvent([messages |-> messages, audioUrl |-> audioUrl],
                             recs[k].messageId, EventOf(shape, frag),
                             recs[k].cap.settings.serverUrl)
      at == CHOOSE i \in DOMAIN h.messages : h.messages[i].id = recs[k].messageId
  IN h.messages[at].toolCalls

\* C22: whatever the shape in which a fragment comes, the tool calls of the
\* target after the step are those that the flat shape and the nested shape
\* of the same id, name and arguments give from the same messages.
C22_NestedFoldsAsFlat ==
  [][\A k \in DOMAIN recs :
       Receives(k) =>
         /\ Target(k)'.toolCalls = FoldedAs(k, "flat", Received(k))
         /\ Target(k)'.toolCalls = FoldedAs(k, "nested", Received(k))
         /\ \A i \in DOMAIN messages :
              messages[i].id # recs[k].messageId => messages'[i] = messages[i]]_vars

\* A named fragment of id "1" came flat and a second one came nested and was
\* merged into the entry of the first.
C22_Witness ==
  \E k \in DOMAIN recs :
    /\ recs[k].shape = "nested"
    /\ Len(recs[k].body) = 2
    /\ recs[k].body[1] = RawTool("1", "f", <<"a">>)
    /\ recs[k].body[2] = RawTool("1", "g", <<"c">>)
    /\ Target(k).toolCalls = <<RawTool("1", "g", <<"a", "c">>)>>

\* The fragment has no correlation id, or its id is that of no entry of the
\* target of recording k.
Unmatched(k, frag) ==
  \/ ~Truthy(frag.id)
  \/ \A i \in DOMAIN Target(k).toolCalls : Target(k).toolCalls[i].id # frag.id

\* C23: a fragment without correlation id, or whose id is that of no entry,
\* adds exactly one entry at the end of the tool calls of the target, made of
\* the fragment, and leaves the entries that were there as they were.
C23_UnmatchedAppends ==
  [][\A k \in DOMAIN recs :
       (Receives(k) /\ Unmatched(k, Received(k))) =>
         Target(k)'.toolCalls =
           Append(Target(k).toolCalls,
                  RawTool(Received(k).id, OrTool(Received(k).name),
                          Received(k).arguments))]_vars

\* Two fragments without id and one with an empty id came: three entries.
C23_Witness ==
  \E k \in DOMAIN recs :
    /\ Len(recs[k].body) = 3
    /\ recs[k].body[1].id = NoId /\ recs[k].body[2].id = NoId /\ recs[k].body[3].id = ""
    /\ Len(Target(k).toolCalls) = 3
    /\ Target(k).toolCalls[1].id = NoId /\ Target(k).toolCalls[2].id = NoId
    /\ Target(k).toolCalls[3].id = ""

(***************************************************************************)
(* Properties of the load of the settings (SpecSettings).                  *)
(***************************************************************************)
\* The item holds a document whose serverUrl starts with the stale address.
HoldsStaleUrl(item) ==
  /\ item.kind = "json"
  /\ IsJsonString(item.doc.serverUrl)
  /\ LET u == Unescape(SubSeq(item.doc.serverUrl, 2, Len(item.doc.serverUrl) - 1))
     IN Len(u) >= 2 /\ u[1] \in {"http://", "https://"} /\ u[2] = StaleHost

InFlight == {k \in DOMAIN recs : recs[k].sendpc \in {"fetching", "reading", "json"}}

\* The recordings that were stopped and whose request has not finished.
StoppedUnfinished ==
  {k \in DOMAIN recs : recs[k].pc = "stopping"} \cup InFlight

C25_OneInFlight ==
  /\ Cardinality(InFlight) <= 1
  /\ Cardinality({i \in DOMAIN messages : IsActiveTarget(messages[i].id)}) <= 1

C25_ProcessingWhileSending == mounted => (isProcessing <=> InFlight # {})

C25_NoStartBeforeFinished ==
  [][StoppedUnfinished # {} => Len(recs') = Len(recs)]_vars

\* C25: at most one sendAudio call is running and at most one message is the
\* target of a request in flight; isProcessing is true exactly while a
\* sendAudio call is running; and no recording is started while a recording
\* that was stopped has not finished its request.
C25_SingleFlight ==
  /\ []C25_OneInFlight
  /\ []C25_ProcessingWhileSending
  /\ C25_NoStartBeforeFinished

(***************************************************************************)
(* Properties of the message list (SpecSend).                              *)
(***************************************************************************)
\* The tools text that the send of recording k validates is blank or JSON.
PassesValidation(k) ==
  LET t == recs[k].cap.settings.toolsJson
  IN Trim(t) = <<>> \/ RemoveSpace(t) \in ValidJsonDocs

\* The messages added in this step, in order.
Added == SubSeq(messages', Len(messages) + 1, Len(messages'))

====
